---- MODULE Spec2Model ----
(***************************************************************************)
(* The assistant endpoint POST /api/ai of the journal server (server.js,   *)
(* the newer variant with conversation history): input validation, intent  *)
(* inference over the question text, the Entry Store query, context and    *)
(* prompt assembly, the generation call and the normalisation of its       *)
(* result into one HTTP response.                                          *)
(*                                                                         *)
(* Text that the handler inspects character by character (the question,   *)
(* author names, dates) is a sequence of one-character strings.  Text that *)
(* is only copied (entry bodies, generated text, messages) is a string.    *)
(* An optional value is a sequence of length 0 or 1.                       *)
(***************************************************************************)
EXTENDS Integers, Sequences, FiniteSets, TLC

\* ------------------------------------------------------------------------
\* Characters and JavaScript string primitives
\* ------------------------------------------------------------------------

UpperCase == <<"A","B","C","D","E","F","G","H","I","J","K","L","M",
               "N","O","P","Q","R","S","T","U","V","W","X","Y","Z">>

LowerCase == <<"a","b","c","d","e","f","g","h","i","j","k","l","m",
               "n","o","p","q","r","s","t","u","v","w","x","y","z">>

Digits == <<"0","1","2","3","4","5","6","7","8","9">>

Range(s) == { s[i] : i \in DOMAIN s }

IsDigit(c) == c \in Range(Digits)

\* \w of a JavaScript regular expression
IsWordChar(c) == c \in Range(UpperCase) \cup Range(LowerCase) \cup Range(Digits) \cup {"_"}

\* \s of a JavaScript regular expression
IsSpace(c) == c \in {" ", "\t", "\n"}

ToLowerChar(c) ==
  IF c \in Range(UpperCase)
    THEN LowerCase[CHOOSE i \in DOMAIN UpperCase : UpperCase[i] = c]
    ELSE c

\* String.prototype.toLowerCase
ToLowerCase(s) == [ i \in DOMAIN s |-> ToLowerChar(s[i]) ]

\* the substring `sub` starts at position i of s
MatchesAt(s, sub, i) ==
  /\ i >= 1
  /\ i + Len(sub) - 1 <= Len(s)
  /\ SubSeq(s, i, i + Len(sub) - 1) = sub

\* String.prototype.includes
Includes(s, sub) == \E i \in 1..(Len(s) + 1) : MatchesAt(s, sub, i)

\* /\d{4}-\d{2}-\d{2}/ anchored at position i
DateShapeAt(s, i) ==
  /\ i >= 1
  /\ i + 9 <= Len(s)
  /\ \A k \in {0, 1, 2, 3, 5, 6, 8, 9} : IsDigit(s[i + k])
  /\ s[i + 4] = "-"
  /\ s[i + 7] = "-"

RECURSIVE DateMatchFrom(_, _)
DateMatchFrom(s, i) ==
  IF i + 9 > Len(s) THEN << >>
  ELSE IF DateShapeAt(s, i) THEN << SubSeq(s, i, i + 9) >>
  ELSE DateMatchFrom(s, i + 1)

\* query.match(/(\d{4}-\d{2}-\d{2})/): the leftmost match, as dateMatch[1],
\* or the empty option when match() returns null
DateMatch(s) == DateMatchFrom(s, 1)

\* the alternation of the stop-word expression, in the order it is written
StopWords == << <<"w","h","a","t">>, <<"h","o","w">>, <<"d","i","d">>,
                <<"w","a","s">>, <<"i","s">>, <<"a">>, <<"t","h","e">>,
                <<"f","o","r">>, <<"o","n">>,
                <<"a","b","o","u","t">>, <<"t","e","l","l">>, <<"m","e">> >>

\* length of the alternative the regular expression takes at position i
\* (the first alternative, in written order, that matches there); 0 if none
StopWordLenAt(s, i) ==
  LET hits == { k \in DOMAIN StopWords : MatchesAt(s, StopWords[k], i) }
  IN  IF hits = {} THEN 0
      ELSE Len(StopWords[CHOOSE k \in hits : \A j \in hits : k <= j])

RECURSIVE StripStopWordsFrom(_, _)
StripStopWordsFrom(s, i) ==
  IF i > Len(s) THEN << >>
  ELSE LET n == StopWordLenAt(s, i)
       IN  IF n > 0 THEN StripStopWordsFrom(s, i + n)
           ELSE << s[i] >> \o StripStopWordsFrom(s, i + 1)

\* .replace(/what|how|did|was|is|a|the|for|on|about|tell|me/g, '')
StripStopWords(s) == StripStopWordsFrom(s, 1)

KeepWordOrSpace(c) == IsWordChar(c) \/ IsSpace(c)

\* .replace(/[^\w\s]/g, '')
StripPunctuation(s) == SelectSeq(s, KeepWordOrSpace)

RECURSIVE TrimLeft(_)
TrimLeft(s) ==
  IF s # << >> /\ IsSpace(Head(s)) THEN TrimLeft(Tail(s)) ELSE s

RECURSIVE TrimRight(_)
TrimRight(s) ==
  IF s # << >> /\ IsSpace(s[Len(s)]) THEN TrimRight(SubSeq(s, 1, Len(s) - 1)) ELSE s

\* String.prototype.trim
Trim(s) == TrimRight(TrimLeft(s))

\* String.prototype.split(/\s+/): cur is the piece being read; a run of
\* white space closes it
RECURSIVE SplitFrom(_, _, _)
SplitFrom(s, i, cur) ==
  IF i > Len(s) THEN << cur >>
  ELSE IF IsSpace(s[i])
    THEN IF i > 1 /\ IsSpace(s[i - 1])
           THEN SplitFrom(s, i + 1, cur)
           ELSE << cur >> \o SplitFrom(s, i + 1, << >>)
    ELSE SplitFrom(s, i + 1, Append(cur, s[i]))

SplitOnSpace(s) == SplitFrom(s, 1, << >>)

LongerThan3(word) == Len(word) > 3

RECURSIVE JoinWithSpace(_)
\* Array.prototype.join(' ')
JoinWithSpace(words) ==
  IF words = << >> THEN << >>
  ELSE IF Len(words) = 1 THEN words[1]
  ELSE words[1] \o << " " >> \o JoinWithSpace(Tail(words))

\* a keyword extraction that finds no keyword
ExtractKeywordsNone(queryLower) == << >>

\* the keyword extraction chain of the handler
ExtractKeywords(queryLower) ==
  SelectSeq(SplitOnSpace(Trim(StripPunctuation(StripStopWords(queryLower)))),
            LongerThan3)

\* ------------------------------------------------------------------------
\* The system clock and JavaScript Date
\* ------------------------------------------------------------------------
\* An instant is a whole number of hours since 2024-01-01T00:00Z; the
\* instants the clock is drawn from all lie in 2024.

ClockYear == <<"2","0","2","4">>

MonthLengths == <<31, 29, 31, 30, 31, 30, 31, 31, 30, 31, 30, 31>>

\* first instant of daylight-saving time of the zone America/New_York
\* (2024-03-10T07:00Z) and first instant after it (2024-11-03T06:00Z)
DstStart == 69 * 24 + 7

DstEnd == 307 * 24 + 6

TimeZones == {"UTC", "America/New_York"}

StdOffset(tz) == IF tz = "UTC" THEN 0 ELSE -5

\* offset of local time from UTC at instant t, in hours
TzOffset(tz, t) ==
  IF tz = "UTC" THEN 0
  ELSE IF t >= DstStart /\ t < DstEnd THEN -4 ELSE -5

\* LocalTime(t) of ECMAScript
LocalTime(tz, t) == t + TzOffset(tz, t)

\* UTC(t) of ECMAScript: the instant whose local time is l; a repeated local
\* time is the earlier instant, a skipped one is read with the offset in
\* force before the transition
UtcOfLocal(tz, l) ==
  LET cands == { t \in (l - 1)..(l + 6) : LocalTime(tz, t) = l }
  IN  IF cands # {} THEN CHOOSE t \in cands : \A u \in cands : t <= u
      ELSE l - StdOffset(tz)

\* d = new Date(today); d.setDate(today.getDate() - 1): the same local
\* wall-clock time on the previous local calendar day
SetDateMinusOne(tz, t) == UtcOfLocal(tz, LocalTime(tz, t) - 24)

TwoDigits(n) == << Digits[(n \div 10) + 1], Digits[(n % 10) + 1] >>

RECURSIVE MonthDayFrom(_, _)
\* <<month, day of month>> of the 0-based day `d` counted from the first day
\* of month m
MonthDayFrom(d, m) ==
  IF d < MonthLengths[m] THEN << m, d + 1 >>
  ELSE MonthDayFrom(d - MonthLengths[m], m + 1)

\* date.toISOString().split('T')[0]: the UTC calendar date of instant t
ISODate(t) ==
  LET md == MonthDayFrom(t \div 24, 1)
  IN  ClockYear \o << "-" >> \o TwoDigits(md[1]) \o << "-" >> \o TwoDigits(md[2])

\* ------------------------------------------------------------------------
\* JavaScript values of the request body
\* ------------------------------------------------------------------------

JsUndefined == [type |-> "undefined", chars |-> << >>, num |-> 0]

JsString(s) == [type |-> "string", chars |-> s, num |-> 0]

JsNumber(n) == [type |-> "number", chars |-> << >>, num |-> n]

\* ToBoolean: what `!v` negates
Truthy(v) ==
  CASE v.type = "string" -> v.chars # << >>
    [] v.type = "number" -> v.num # 0
    [] OTHER -> FALSE

Shivam == <<"S","h","i","v","a","m">>

Shreya == <<"S","h","r","e","y","a">>

\* ['Shivam', 'Shreya'], the enum of the schema and of the validation
KnownUsers == << Shivam, Shreya >>

\* ['Shivam', 'Shreya'].includes(v): strict equality with an element
IsKnownUser(v) == v.type = "string" /\ v.chars \in Range(KnownUsers)

\* ------------------------------------------------------------------------
\* Entry Store (the JournalEntry collection)
\* ------------------------------------------------------------------------

\* ASCII order of the characters that occur in stored dates and names
AsciiOrder == << "-" >> \o Digits \o UpperCase \o << "_" >> \o LowerCase

CharRank(c) == CHOOSE i \in DOMAIN AsciiOrder : AsciiOrder[i] = c

RECURSIVE StrLess(_, _)
\* a < b in the string order the store sorts by
StrLess(a, b) ==
  IF b = << >> THEN FALSE
  ELSE IF a = << >> THEN TRUE
  ELSE IF Head(a) = Head(b) THEN StrLess(Tail(a), Tail(b))
  ELSE CharRank(Head(a)) < CharRank(Head(b))

\* e comes before f under .sort({ date: -1, createdAt: -1 })
NewerFirst(e, f) ==
  \/ StrLess(f.date, e.date)
  \/ e.date = f.date /\ e.createdAt > f.createdAt

\* e comes before f under .sort({ score: { $meta: "textScore" }, date: -1 })
\* for the relevance scores `score` the text index gives the entries
MoreRelevantFirst(score, e, f) ==
  \/ score[e] > score[f]
  \/ score[e] = score[f] /\ StrLess(f.date, e.date)

RECURSIVE SortNewerFirst(_)
SortNewerFirst(S) ==
  IF S = {} THEN << >>
  ELSE LET e == CHOOSE x \in S : \A y \in S \ {x} : NewerFirst(x, y) \/ ~NewerFirst(y, x)
       IN  << e >> \o SortNewerFirst(S \ {e})

RECURSIVE SortMoreRelevantFirst(_, _)
SortMoreRelevantFirst(score, S) ==
  IF S = {} THEN << >>
  ELSE LET e == CHOOSE x \in S :
                  \A y \in S \ {x} : MoreRelevantFirst(score, x, y)
                                     \/ ~MoreRelevantFirst(score, y, x)
       IN  << e >> \o SortMoreRelevantFirst(score, S \ {e})

\* .limit(n) that cuts nothing
LimitNone(seq, n) == seq

\* .limit(n)
Limit(seq, n) == SubSeq(seq, 1, IF Len(seq) < n THEN Len(seq) ELSE n)

\* Find that ignores the user filter of mongoQuery
FindAllUsers(entries, mongoQuery, sortOptions, limit, score) ==
  LET byDate == IF mongoQuery.date = << >> THEN entries
                ELSE { e \in entries : e.date = mongoQuery.date[1] }
      byText == IF mongoQuery.search = << >> THEN byDate
                ELSE { e \in byDate : score[e] > 0 }
      sorted == IF sortOptions[1] = "score"
                  THEN SortMoreRelevantFirst(score, byText)
                  ELSE SortNewerFirst(byText)
  IN  Limit(sorted, limit)

\* JournalEntry.find(mongoQuery).sort(sortOptions).limit(limit).exec() when it
\* resolves.  score is the relevance the text index gives each stored entry
\* for the $search string (0: no match); it is read only by a $text query.
Find(entries, mongoQuery, sortOptions, limit, score) ==
  LET byUser == { e \in entries : e.user \in Range(mongoQuery.users) }
      byDate == IF mongoQuery.date = << >> THEN byUser
                ELSE { e \in byUser : e.date = mongoQuery.date[1] }
      byText == IF mongoQuery.search = << >> THEN byDate
                ELSE { e \in byDate : score[e] > 0 }
      sorted == IF sortOptions[1] = "score"
                  THEN SortMoreRelevantFirst(score, byText)
                  ELSE SortNewerFirst(byText)
  IN  Limit(sorted, limit)

\* ------------------------------------------------------------------------
\* The handler of POST /api/ai, step by step
\* ------------------------------------------------------------------------

\* one piece of generated text: a fixed sentence or line shape (kind) with
\* the values interpolated into it
Seg(kind, user, date, text) == [kind |-> kind, user |-> user, date |-> date, text |-> text]

\* res.status(status).json(body)
Response(status, response, message, error) ==
  [status |-> status, response |-> response, message |-> message, error |-> error]

AssistantLabel == <<"A","s","s","i","s","t","a","n","t">>

\* the handler's local variables when the request arrives: the parsed body,
\* fullPrompt = "" and nothing sent (dbError records that the inner catch
\* block ran)
NewHandler(body) ==
  [pc |-> "start", body |-> body,
   queryLower |-> << >>, targetUsers |-> << >>, today |-> 0,
   dateFilter |-> << >>, keywordFilter |-> << >>,
   sortOptions |-> << >>, projectionOptions |-> {},
   mongoQuery |-> [users |-> << >>, date |-> << >>, search |-> << >>],
   limit |-> 0, fetchedEntries |-> << >>, dbError |-> FALSE,
   contextText |-> << >>, historyText |-> << >>, fullPrompt |-> << >>,
   result |-> << >>, sent |-> << >>, storeQueries |-> 0, generationCalls |-> 0]

\* a slot in which no request is being handled
NoHandler == [NewHandler([query |-> JsUndefined, askingUser |-> JsUndefined,
                          chatHistory |-> << >>]) EXCEPT !.pc = "absent"]

\* if (!query || !askingUser || !['Shivam', 'Shreya'].includes(askingUser))
InvalidBody(body) ==
  \/ ~Truthy(body.query)
  \/ ~Truthy(body.askingUser)
  \/ ~IsKnownUser(body.askingUser)

\* return res.status(400).json({ message: 'Missing or invalid fields ...' })
RejectInput(h) ==
  [h EXCEPT !.pc = "done",
            !.sent = Append(@, Response(400, << >>,
                       << "Missing or invalid fields (query, askingUser)" >>, << >>))]

\* CatchError answering with a generic apology instead of an error status
CatchErrorAsSuccess(h, errorMessage) ==
  [h EXCEPT !.pc = "done",
            !.sent = Append(@, Response(200, << "Sorry, something went wrong." >>,
                                        << >>, << >>))]

\* the catch block of the handler: one 500 response carrying error.message
CatchError(h, errorMessage) ==
  [h EXCEPT !.pc = "done",
            !.sent = Append(@, Response(500, << >>,
                       << "Failed to get AI response" >>, << errorMessage >>))]

OtherUser(askingUser) == IF askingUser = Shivam THEN Shreya ELSE Shivam

RECURSIVE Dedup(_)
\* [...new Set(array)]: first occurrences, in order
Dedup(seq) ==
  IF seq = << >> THEN << >>
  ELSE LET init == Dedup(SubSeq(seq, 1, Len(seq) - 1))
           last == seq[Len(seq)]
       IN  IF last \in Range(init) THEN init ELSE Append(init, last)

Both == <<"b","o","t","h">>

Everyone == <<"e","v","e","r","y","o","n","e">>

\* TargetUsers without the both/everyone detector
TargetUsersNoBoth(queryLower, askingUser) ==
  Dedup(IF Includes(queryLower, ToLowerCase(OtherUser(askingUser)))
          THEN << askingUser, OtherUser(askingUser) >>
          ELSE << askingUser >>)

TargetUsers(queryLower, askingUser) ==
  LET named == IF Includes(queryLower, ToLowerCase(OtherUser(askingUser)))
                 THEN << askingUser, OtherUser(askingUser) >>
                 ELSE << askingUser >>
      all   == IF Includes(queryLower, Both) \/ Includes(queryLower, Everyone)
                 THEN << Shivam, Shreya >>
                 ELSE named
  IN  Dedup(all)

Today == <<"t","o","d","a","y">>

Yesterday == <<"y","e","s","t","e","r","d","a","y">>

\* DateFilter with the "today" detector tried before the date literal
DateFilterTodayFirst(query, queryLower, today, zone) ==
  LET dateMatch == DateMatch(query)
  IN  IF Includes(queryLower, Today) THEN << ISODate(today) >>
      ELSE IF dateMatch # << >> THEN << dateMatch[1] >>
      ELSE IF Includes(queryLower, Yesterday)
        THEN << ISODate(SetDateMinusOne(zone, today)) >>
      ELSE << >>

\* the date detectors, first match wins; today is the instant new Date() read
DateFilter(query, queryLower, today, zone) ==
  LET dateMatch == DateMatch(query)
  IN  IF dateMatch # << >> THEN << dateMatch[1] >>
      ELSE IF Includes(queryLower, Today) THEN << ISODate(today) >>
      ELSE IF Includes(queryLower, Yesterday)
        THEN << ISODate(SetDateMinusOne(zone, today)) >>
      ELSE << >>

\* KeywordFilter without the `keywords.length > 0` test
KeywordFilterNoEmptyCheck(queryLower, dateFilter) ==
  IF dateFilter # << >> THEN << >>
  ELSE << JoinWithSpace(ExtractKeywords(queryLower)) >>

\* KeywordFilter without the `!dateFilter` test
KeywordFilterAlways(queryLower, dateFilter) ==
  LET keywords == ExtractKeywords(queryLower)
  IN  IF Len(keywords) > 0 THEN << JoinWithSpace(keywords) >> ELSE << >>

\* keywordFilter: the $search string, only looked for without a date filter
KeywordFilter(queryLower, dateFilter) ==
  IF dateFilter # << >> THEN << >>
  ELSE LET keywords == ExtractKeywords(queryLower)
       IN  IF Len(keywords) > 0 THEN << JoinWithSpace(keywords) >> ELSE << >>

\* SortOptions that keeps the default sort for a keyword search
SortOptionsDefault(keywordFilter) == << "date", "createdAt" >>

SortOptions(keywordFilter) ==
  IF keywordFilter # << >> THEN << "score", "date" >> ELSE << "date", "createdAt" >>

ProjectionOptions(keywordFilter) ==
  IF keywordFilter # << >> THEN {"score"} ELSE {}

HowWas == <<"h","o","w"," ","w","a","s">>

WhatDid == <<"w","h","a","t"," ","d","i","d">>

DateLimit == 15

KeywordLimit == 10

RecapPerUser == 5

LatestLimit == 1

\* QueryLimit without the single-latest-entry tier
QueryLimitNoLatest(queryLower, targetUsers, dateFilter, keywordFilter) ==
  IF dateFilter # << >> THEN DateLimit
  ELSE IF keywordFilter # << >> THEN KeywordLimit
  ELSE RecapPerUser * Len(targetUsers)

QueryLimit(queryLower, targetUsers, dateFilter, keywordFilter) ==
  IF dateFilter # << >> THEN DateLimit
  ELSE IF keywordFilter # << >> THEN KeywordLimit
  ELSE IF ~Includes(queryLower, HowWas) /\ ~Includes(queryLower, WhatDid)
    THEN LatestLimit
  ELSE RecapPerUser * Len(targetUsers)

\* the body was accepted: everything up to `await findQuery.exec()`
Interpret(h, now, zone) ==
  LET query       == h.body.query.chars
      askingUser  == h.body.askingUser.chars
      queryLower  == ToLowerCase(query)
      targetUsers == TargetUsers(queryLower, askingUser)
      dateFilter  == DateFilter(query, queryLower, now, zone)
      keywordFilter == KeywordFilter(queryLower, dateFilter)
  IN  [h EXCEPT !.pc = "awaitStore",
                !.queryLower = queryLower,
                !.targetUsers = targetUsers,
                !.today = now,
                !.dateFilter = dateFilter,
                !.keywordFilter = keywordFilter,
                !.sortOptions = SortOptions(keywordFilter),
                !.projectionOptions = ProjectionOptions(keywordFilter),
                !.mongoQuery = [users |-> targetUsers, date |-> dateFilter,
                                search |-> keywordFilter],
                !.limit = QueryLimit(queryLower, targetUsers, dateFilter, keywordFilter),
                !.storeQueries = @ + 1]

\* EntryLine that names the author on every line
EntryLineAlwaysUser(entry, targetUsers) ==
  Seg("entry", entry.user, entry.date, entry.text)

\* one "- On <date>, [<user> ]wrote: "<text>"" line
EntryLine(entry, targetUsers) ==
  Seg("entry", IF Len(targetUsers) > 1 THEN entry.user ELSE << >>, entry.date, entry.text)

\* FormatContext with a plain else: the no-entries sentence overwrites the
\* database-error sentence
FormatContextOverwrites(fetchedEntries, targetUsers, contextText) ==
  IF Len(fetchedEntries) > 0
    THEN << Seg("entriesHeader", << >>, << >>, "") >>
         \o [ i \in DOMAIN fetchedEntries |-> EntryLine(fetchedEntries[i], targetUsers) ]
  ELSE << Seg("noEntries", << >>, << >>, "") >>

\* the journal context block; contextText already holds the database-error
\* sentence when the query was rejected
FormatContext(fetchedEntries, targetUsers, contextText) ==
  IF Len(fetchedEntries) > 0
    THEN << Seg("entriesHeader", << >>, << >>, "") >>
         \o [ i \in DOMAIN fetchedEntries |-> EntryLine(fetchedEntries[i], targetUsers) ]
  ELSE IF contextText = << >>
    THEN << Seg("noEntries", << >>, << >>, "") >>
  ELSE contextText

\* FormatHistory that renders the latest turn first
FormatHistoryNewestFirst(chatHistory, askingUser) ==
  IF Len(chatHistory) > 0
    THEN << Seg("historyHeader", << >>, << >>, "") >>
         \o [ i \in DOMAIN chatHistory |->
                LET msg == chatHistory[Len(chatHistory) + 1 - i]
                IN  Seg("turn",
                        IF msg.sender = "user" THEN askingUser ELSE AssistantLabel,
                        << >>, msg.text) ]
  ELSE << >>

\* the conversation history block
FormatHistory(chatHistory, askingUser) ==
  IF Len(chatHistory) > 0
    THEN << Seg("historyHeader", << >>, << >>, "") >>
         \o [ i \in DOMAIN chatHistory |->
                Seg("turn",
                    IF chatHistory[i].sender = "user" THEN askingUser ELSE AssistantLabel,
                    << >>, chatHistory[i].text) ]
  ELSE << >>

\* FullPrompt with the question ahead of the history and the journal context
FullPromptQuestionFirst(askingUser, historyText, contextText, query) ==
  << [block |-> "persona",  text |-> << Seg("persona", askingUser, << >>, "") >>],
     [block |-> "task",     text |-> << Seg("task", askingUser, << >>, "") >>],
     [block |-> "query",    text |-> << Seg("query", askingUser, query, "") >>],
     [block |-> "history",  text |-> historyText],
     [block |-> "context",  text |-> contextText],
     [block |-> "cue",      text |-> << Seg("cue", << >>, << >>, "") >>] >>

\* fullPrompt: the blocks of the template string, in the order written
\* (the query block carries the question in the date field of its piece)
FullPrompt(askingUser, historyText, contextText, query) ==
  << [block |-> "persona",  text |-> << Seg("persona", askingUser, << >>, "") >>],
     [block |-> "task",     text |-> << Seg("task", askingUser, << >>, "") >>],
     [block |-> "history",  text |-> historyText],
     [block |-> "context",  text |-> contextText],
     [block |-> "query",    text |-> << Seg("query", askingUser, query, "") >>],
     [block |-> "cue",      text |-> << Seg("cue", << >>, << >>, "") >>] >>

\* from the end of the store query to `await geminiModel.generateContent`
AssembleAndGenerate(h) ==
  LET askingUser  == h.body.askingUser.chars
      contextText == FormatContext(h.fetchedEntries, h.targetUsers, h.contextText)
      historyText == FormatHistory(h.body.chatHistory, askingUser)
  IN  [h EXCEPT !.pc = "awaitGeneration",
                !.contextText = contextText,
                !.historyText = historyText,
                !.fullPrompt = FullPrompt(askingUser, historyText, contextText,
                                          h.body.query.chars),
                !.generationCalls = @ + 1]

\* findQuery.exec() resolved with `entries`
StoreResolved(h, entries) ==
  AssembleAndGenerate([h EXCEPT !.fetchedEntries = entries])

\* StoreRejected without the inner try/catch: the rejection reaches the
\* catch block of the handler
StoreRejectedRethrows(h) == CatchError(h, "database error")

\* findQuery.exec() rejected: the inner catch sets the context sentence and
\* does not re-throw
StoreRejected(h) ==
  AssembleAndGenerate([h EXCEPT !.dbError = TRUE,
                               !.contextText = << Seg("dbError", << >>, << >>, "") >>])

\* ------------------------------------------------------------------------
\* The generation call and the normalisation of its result
\* ------------------------------------------------------------------------
\* What `await result.response` hands the handler, as far as the handler
\* looks at it: kind "null" is a missing response object; hasText is the
\* truthiness of response.text, and call/text what response.text() does when
\* called; the other fields are options (absent: << >>).

BlockReasons == {"SAFETY"}

FinishReasons == {"STOP", "MAX_TOKENS"}

Texts == {"", "answer"}

PartTexts == {"", "fragment"}

Option(S) == { << >> } \cup { << x >> : x \in S }

ResponseObjects ==
  [kind : {"object"}, hasText : {FALSE}, call : {"none"}, text : {""},
   blockReason : Option(BlockReasons), finishReason : Option(FinishReasons),
   partText : Option(PartTexts)]
  \cup
  [kind : {"object"}, hasText : {TRUE}, call : {"returns"}, text : Texts,
   blockReason : Option(BlockReasons), finishReason : Option(FinishReasons),
   partText : Option(PartTexts)]
  \cup
  [kind : {"object"}, hasText : {TRUE}, call : {"throws"}, text : {""},
   blockReason : Option(BlockReasons), finishReason : Option(FinishReasons),
   partText : Option(PartTexts)]

NullResponse ==
  [kind |-> "null", hasText |-> FALSE, call |-> "none", text |-> "",
   blockReason |-> << >>, finishReason |-> << >>, partText |-> << >>]

GenerationResults == ResponseObjects \cup {NullResponse}

\* NoTextOutcome with the termination reason tested before the block reason
NoTextOutcomeFinishFirst(g) ==
  IF g.finishReason # << >> /\ g.finishReason[1] # "STOP"
    THEN Response(400, << >>,
                  << "Response generation stopped due to: ", g.finishReason[1] >>, << >>)
  ELSE IF g.blockReason # << >>
    THEN Response(400, << >>, << "Response blocked due to: ", g.blockReason[1] >>, << >>)
  ELSE IF g.partText # << >> /\ g.partText[1] # ""
    THEN Response(200, << g.partText[1] >>, << >>, << >>)
  ELSE Response(500, << >>, << "AI returned an empty response." >>, << >>)

\* NoTextOutcome with the fragment tested before the termination reason
NoTextOutcomePartialFirst(g) ==
  IF g.blockReason # << >>
    THEN Response(400, << >>, << "Response blocked due to: ", g.blockReason[1] >>, << >>)
  ELSE IF g.partText # << >> /\ g.partText[1] # ""
    THEN Response(200, << g.partText[1] >>, << >>, << >>)
  ELSE IF g.finishReason # << >> /\ g.finishReason[1] # "STOP"
    THEN Response(400, << >>,
                  << "Response generation stopped due to: ", g.finishReason[1] >>, << >>)
  ELSE Response(500, << >>, << "AI returned an empty response." >>, << >>)

\* the `if (!response || !response.text)` block: each branch sends one
\* response and returns
NoTextOutcome(g) ==
  IF g.blockReason # << >>
    THEN Response(400, << >>, << "Response blocked due to: ", g.blockReason[1] >>, << >>)
  ELSE IF g.finishReason # << >> /\ g.finishReason[1] # "STOP"
    THEN Response(400, << >>,
                  << "Response generation stopped due to: ", g.finishReason[1] >>, << >>)
  ELSE IF g.partText # << >> /\ g.partText[1] # ""
    THEN Response(200, << g.partText[1] >>, << >>, << >>)
  ELSE Response(500, << >>, << "AI returned an empty response." >>, << >>)

\* GenerationResolved with the `return` missing after a no-text response:
\* control falls through to response.text(), which throws into the catch
GenerationResolvedNoReturn(h, g) ==
  LET h1 == [h EXCEPT !.result = << g >>]
  IN  IF g.kind = "null" \/ ~g.hasText
        THEN CatchError([h1 EXCEPT !.sent = Append(@, NoTextOutcome(g))],
                        "response.text is not a function")
      ELSE IF g.call = "throws"
        THEN CatchError(h1, "response.text() threw")
      ELSE [h1 EXCEPT !.pc = "done",
                      !.sent = Append(@, Response(200, << g.text >>, << >>, << >>))]

\* generateContent resolved with g: the rest of the try block
GenerationResolved(h, g) ==
  LET h1 == [h EXCEPT !.result = << g >>]
  IN  IF g.kind = "null" \/ ~g.hasText
        THEN [h1 EXCEPT !.pc = "done", !.sent = Append(@, NoTextOutcome(g))]
      ELSE IF g.call = "throws"
        THEN CatchError(h1, "response.text() threw")
      ELSE [h1 EXCEPT !.pc = "done",
                      !.sent = Append(@, Response(200, << g.text >>, << >>, << >>))]

\* generateContent rejected: control goes to the catch block
\* GenerationRejected that issues the generation call again
GenerationRejectedRetries(h) == [h EXCEPT !.generationCalls = @ + 1]

GenerationRejected(h) == CatchError(h, "generateContent rejected")

\* ------------------------------------------------------------------------
\* Inputs: questions, request bodies, journal entries, clocks
\* ------------------------------------------------------------------------

\* "What did I write on 2024-03-01?"
QDate ==
  << "W","h","a","t"," ","d","i","d"," ","I"," ","w","r","i","t","e"," ",
     "o","n"," ","2","0","2","4","-","0","3","-","0","1","?" >>

\* "How was Shreya's week?"
QWeek ==
  << "H","o","w"," ","w","a","s"," ","S","h","r","e","y","a","'","s"," ",
     "w","e","e","k","?" >>

\* "hi"
QHi ==
  << "h","i" >>

\* "how was today"
QToday ==
  << "h","o","w"," ","w","a","s"," ","t","o","d","a","y" >>

\* "What did I do?"
QRecap ==
  << "W","h","a","t"," ","d","i","d"," ","I"," ","d","o","?" >>

\* "And yesterday?"
QYesterday ==
  << "A","n","d"," ","y","e","s","t","e","r","d","a","y","?" >>

\* "Yesterday and TODAY"
QTodayYesterday ==
  << "Y","e","s","t","e","r","d","a","y"," ","a","n","d"," ","T","O","D",
     "A","Y" >>

\* "today 2024-03-01 yesterday vacation"
QDateToday ==
  << "t","o","d","a","y"," ","2","0","2","4","-","0","3","-","0","1"," ",
     "y","e","s","t","e","r","d","a","y"," ","v","a","c","a","t","i","o",
     "n" >>

\* "2024-13-45 then 2024-03-02"
QTwoDates ==
  << "2","0","2","4","-","1","3","-","4","5"," ","t","h","e","n"," ","2",
     "0","2","4","-","0","3","-","0","2" >>

\* "x12024-03-011"
QDigits ==
  << "x","1","2","0","2","4","-","0","3","-","0","1","1" >>

\* "2024-3-01 dinner"
QShortDate ==
  << "2","0","2","4","-","3","-","0","1"," ","d","i","n","n","e","r" >>

\* "What did both of us do"
QBoth ==
  << "W","h","a","t"," ","d","i","d"," ","b","o","t","h"," ","o","f"," ",
     "u","s"," ","d","o" >>

\* "everyone ok?"
QEveryone ==
  << "e","v","e","r","y","o","n","e"," ","o","k","?" >>

\* "shivam and SHREYA"
QNames ==
  << "s","h","i","v","a","m"," ","a","n","d"," ","S","H","R","E","Y","A" >>

\* "bothered"
QBothered ==
  << "b","o","t","h","e","r","e","d" >>

\* "How was it?"
QHowWasIt ==
  << "H","o","w"," ","w","a","s"," ","i","t","?" >>

\* "tell me about the birthday"
QBirthday ==
  << "t","e","l","l"," ","m","e"," ","a","b","o","u","t"," ","t","h","e",
     " ","b","i","r","t","h","d","a","y" >>

\* "yesterday 2024-02-29"
QDateYesterday ==
  << "y","e","s","t","e","r","d","a","y"," ","2","0","2","4","-","0","2",
     "-","2","9" >>

Questions == { QDate, QWeek, QHi, QToday, QRecap, QYesterday }

MoreQuestions ==
  { QTodayYesterday,
    QDateToday,
    QTwoDates,
    QDigits,
    QShortDate,
    QBoth,
    QEveryone,
    QNames,
    QBothered,
    QHowWasIt,
    QBirthday,
    QDateYesterday }

Turns == { [sender |-> "user", text |-> "q"], [sender |-> "ai", text |-> "a"] }

\* longest conversation history sent with a request
MaxTurns == 2

RECURSIVE SeqsUpTo(_, _)
SeqsUpTo(S, n) ==
  IF n = 0 THEN { << >> }
  ELSE LET shorter == SeqsUpTo(S, n - 1)
       IN  shorter \cup { Append(q, x) : q \in { t \in shorter : Len(t) = n - 1 }, x \in S }

Histories == SeqsUpTo(Turns, MaxTurns)

\* bodies the validation accepts and that carry a text question
ValidBodies(questions, histories) ==
  [query : { JsString(q) : q \in questions },
   askingUser : { JsString(Shivam), JsString(Shreya) },
   chatHistory : histories]

Stranger == <<"M","a","l","l","o","r","y">>

\* bodies with a missing, empty or non-text question or an unknown identity
OddBodies ==
  [query : { JsUndefined, JsString(<< >>), JsNumber(0), JsNumber(42), JsString(QHi) },
   askingUser : { JsUndefined, JsString(Stranger), JsString(ToLowerCase(Shivam)),
                  JsString(Shivam) },
   chatHistory : { << >> }]
  \ ValidBodies({QHi}, { << >> })

Entry(user, date, text, createdAt) ==
  [user |-> user, date |-> date, text |-> text, createdAt |-> createdAt]

Feb29 == <<"2","0","2","4","-","0","2","-","2","9">>

Mar01 == <<"2","0","2","4","-","0","3","-","0","1">>

Entries ==
  { Entry(Shivam, Mar01, "ran", 1),
    Entry(Shreya, Mar01, "read", 2),
    Entry(Shivam, Feb29, "cooked", 3) }

\* largest relevance score the text index gives an entry
MaxScore == 2

Scores(entries) == [entries -> 0..MaxScore]

\* 2024-03-01T12:00Z, 2024-03-10T23:00Z, 2024-06-15T03:00Z, 2024-11-04T00:00Z
Clocks == { 60 * 24 + 12, 69 * 24 + 23, 166 * 24 + 3, 308 * 24 }

\* ------------------------------------------------------------------------
\* State
\* ------------------------------------------------------------------------

VARIABLES
  handlers,   \* per request slot, the local variables of one handler run
  store,      \* the JournalEntry collection
  clock,      \* the instant new Date() returns
  zone,       \* the time zone of the server process
  page        \* the state of the assistant chat page in the browser

vars == << handlers, store, clock, zone, page >>

Slots == {1, 2}

\* one chat message of the page; asker is the user who was current when the
\* message, or the query it answers, was sent
PageMessage(sender, text, asker) == [sender |-> sender, text |-> text, asker |-> asker]

\* the greeting the page shows the current user
Greeting(user) == PageMessage("ai", Seg("greeting", user, << >>, << >>), user)

\* no askAI call is pending in a slot
NoCall == << >>

\* the page when it is mounted: the first user, the greeting set by the
\* effect on currentUser, an empty input, not loading; calls holds the
\* arguments of the pending askAI calls and sends and replies count the
\* queries sent and the replies appended
NewPage ==
  [currentUser |-> Shivam,
   messages    |-> << Greeting(Shivam) >>,
   inputQuery  |-> << >>,
   isLoading   |-> FALSE,
   calls       |-> [ r \in Slots |-> NoCall ],
   sends       |-> 0,
   replies     |-> 0]

\* one accepted-or-not request in slot 1, drawn from `bodies`
InitWith(bodies, clocks, zones) ==
  /\ \E body \in bodies :
       handlers = [ r \in Slots |-> IF r = 1 THEN NewHandler(body) ELSE NoHandler ]
  /\ store = Entries
  /\ clock \in clocks
  /\ zone \in zones
  /\ page = NewPage

Init ==
  InitWith(ValidBodies(Questions, Histories) \cup OddBodies,
           { 60 * 24 + 12 }, TimeZones)

\* ------------------------------------------------------------------------
\* Actions: the handler runs from one await to the next
\* ------------------------------------------------------------------------

Reject(r) ==
  /\ handlers[r].pc = "start"
  /\ InvalidBody(handlers[r].body)
  /\ handlers' = [handlers EXCEPT ![r] = RejectInput(@)]
  /\ UNCHANGED << store, clock, zone, page >>

\* a truthy question that is not a string: query.toLowerCase() throws
InterpretThrows(r) ==
  /\ handlers[r].pc = "start"
  /\ ~InvalidBody(handlers[r].body)
  /\ handlers[r].body.query.type # "string"
  /\ handlers' = [handlers EXCEPT ![r] =
                    CatchError(@, "query.toLowerCase is not a function")]
  /\ UNCHANGED << store, clock, zone, page >>

\* Query with the intent kept in variables shared by all requests: the
\* handler reads what the other request stored there
QueryShared(r) ==
  /\ handlers[r].pc = "start"
  /\ ~InvalidBody(handlers[r].body)
  /\ handlers[r].body.query.type = "string"
  /\ LET other == handlers[CHOOSE o \in Slots : o # r]
         body  == IF other.pc \in {"absent", "start"} THEN handlers[r].body ELSE other.body
     IN  handlers' = [handlers EXCEPT ![r] =
                        [Interpret([@ EXCEPT !.body = body], clock, zone)
                           EXCEPT !.body = handlers[r].body]]
  /\ UNCHANGED << store, clock, zone, page >>

Query(r) ==
  /\ handlers[r].pc = "start"
  /\ ~InvalidBody(handlers[r].body)
  /\ handlers[r].body.query.type = "string"
  /\ handlers' = [handlers EXCEPT ![r] = Interpret(@, clock, zone)]
  /\ UNCHANGED << store, clock, zone, page >>

\* findQuery.exec() resolves; the text index scores the entries by one of
\* `scores` when the query is a $text search
StoreResolvesWith(r, scores) ==
  /\ handlers[r].pc = "awaitStore"
  /\ \E score \in (IF handlers[r].mongoQuery.search = << >>
                     THEN { [ e \in store |-> 0 ] } ELSE scores) :
       handlers' = [handlers EXCEPT ![r] =
                      StoreResolved(@, Find(store, @.mongoQuery, @.sortOptions,
                                            @.limit, score))]
  /\ UNCHANGED << store, clock, zone, page >>

StoreResolves(r) == StoreResolvesWith(r, Scores(store))

StoreRejects(r) ==
  /\ handlers[r].pc = "awaitStore"
  /\ handlers' = [handlers EXCEPT ![r] = StoreRejected(@)]
  /\ UNCHANGED << store, clock, zone, page >>

\* GenerationResolvesWith that also files the question as a journal entry
GenerationResolvesWithSaves(r, results) ==
  /\ handlers[r].pc = "awaitGeneration"
  /\ \E g \in results :
       handlers' = [handlers EXCEPT ![r] = GenerationResolved(@, g)]
  /\ store' = store \cup { Entry(handlers[r].body.askingUser.chars, Mar01, "asked", 0) }
  /\ UNCHANGED << clock, zone, page >>

\* generateContent and result.response resolve with one of `results`
GenerationResolvesWith(r, results) ==
  /\ handlers[r].pc = "awaitGeneration"
  /\ \E g \in results :
       handlers' = [handlers EXCEPT ![r] = GenerationResolved(@, g)]
  /\ UNCHANGED << store, clock, zone, page >>

GenerationResolves(r) == GenerationResolvesWith(r, GenerationResults)

GenerationRejects(r) ==
  /\ handlers[r].pc = "awaitGeneration"
  /\ handlers' = [handlers EXCEPT ![r] = GenerationRejected(@)]
  /\ UNCHANGED << store, clock, zone, page >>

Next ==
  \E r \in Slots :
    \/ Reject(r)
    \/ InterpretThrows(r)
    \/ Query(r)
    \/ StoreResolves(r)
    \/ StoreRejects(r)
    \/ GenerationResolves(r)
    \/ GenerationRejects(r)

Spec == Init /\ [][Next]_vars

\* the intent inference alone, over many questions, clocks and zones
IntentInit ==
  InitWith(ValidBodies(Questions \cup MoreQuestions, { << >> }) \cup OddBodies,
           Clocks, TimeZones)

IntentNext ==
  \E r \in Slots :
    \/ Reject(r)
    \/ InterpretThrows(r)
    \/ Query(r)

SpecIntent == IntentInit /\ [][IntentNext]_vars

\* two requests handled at the same time over the same store
PairBodies ==
  { [query |-> JsString(QHi), askingUser |-> JsString(Shivam), chatHistory |-> << >>],
    [query |-> JsNumber(42), askingUser |-> JsString(Shivam), chatHistory |-> << >>],
    [query |-> JsUndefined, askingUser |-> JsString(Shivam), chatHistory |-> << >>] }

PairInit ==
  /\ handlers \in [Slots -> { NewHandler(body) : body \in PairBodies }]
  /\ store = Entries
  /\ clock = 60 * 24 + 12
  /\ zone = "UTC"
  /\ page = NewPage

SpecPair == PairInit /\ [][Next]_vars

\* a collection with more matching entries than any limit: 16 entries of
\* one author on one date, next to the entries of Entries
ManyPerDay == 16

BigEntries ==
  Entries \cup { Entry(Shivam, Mar01, "walked", 3 + n) : n \in 1..ManyPerDay - 1 }

Stores == { {}, Entries, BigEntries }

\* relevance scores for a large collection: every entry matches equally, or
\* the older half of the entries matches better, or nothing matches
LimitScores(entries) ==
  { [ e \in entries |-> 1 ],
    [ e \in entries |-> IF e.createdAt < 10 THEN 2 ELSE 1 ],
    [ e \in entries |-> 0 ] }

\* the store query over collections of several sizes
LimitInit ==
  /\ \E body \in ValidBodies(Questions, { << >> }) \cup OddBodies :
       handlers = [ r \in Slots |-> IF r = 1 THEN NewHandler(body) ELSE NoHandler ]
  /\ store \in Stores
  /\ clock = 60 * 24 + 12
  /\ zone = "UTC"
  /\ page = NewPage

LimitNext ==
  \E r \in Slots :
    \/ Reject(r)
    \/ InterpretThrows(r)
    \/ Query(r)
    \/ StoreResolvesWith(r, LimitScores(store))
    \/ StoreRejects(r)

SpecLimit == LimitInit /\ [][LimitNext]_vars

\* questions of the three tiers, asked by one author
TierBodies ==
  PairBodies \cup
  { [query |-> JsString(q), askingUser |-> JsString(Shivam), chatHistory |-> << >>] :
      q \in { QDate, QWeek } }

\* two requests of any tiers over an empty or a small collection
TierInit ==
  /\ handlers \in [Slots -> { NewHandler(body) : body \in TierBodies }]
  /\ store \in { {}, Entries }
  /\ clock = 60 * 24 + 12
  /\ zone = "UTC"
  /\ page = NewPage

SpecTiers == TierInit /\ [][LimitNext]_vars

\* most entries saved through POST /api/journal in one run
MaxSaves == 1

\* bodies of POST /api/journal: fields present or missing, a known or an
\* unknown user
JournalBodies ==
  [user : { Shreya, Stranger, << >> }, date : { Mar01, << >> }, text : { "slept", "" }]

\* if (!user || !date || !text || !['Shivam', 'Shreya'].includes(user))
InvalidEntryBody(body) ==
  \/ body.user = << >>
  \/ body.date = << >>
  \/ body.text = ""
  \/ body.user \notin Range(KnownUsers)

\* createdAt: Date.now of a save that comes after every stored entry
NextCreatedAt(entries) ==
  1 + (CHOOSE n \in 0..(Cardinality(Entries) + MaxSaves + 1) :
         /\ \A e \in entries : e.createdAt <= n
         /\ n = 0 \/ \E e \in entries : e.createdAt = n)

\* the handler of POST /api/journal: 400 for an invalid body, otherwise
\* newEntry.save() adds the entry, or rejects and leaves the collection
PostJournal ==
  /\ Cardinality(store) < Cardinality(Entries) + MaxSaves
  /\ \E body \in JournalBodies :
       \/ /\ InvalidEntryBody(body)
          /\ store' = store
       \/ /\ ~InvalidEntryBody(body)
          /\ store' \in { store,
                          store \cup { Entry(body.user, body.date, body.text,
                                             NextCreatedAt(store)) } }
  /\ UNCHANGED << handlers, clock, zone, page >>

\* the assistant next to the journal: one request of each tier while
\* entries are being saved
JournalInit ==
  InitWith(ValidBodies({ QDate, QWeek, QHi }, { << >> }) \cup OddBodies,
           { 60 * 24 + 12 }, { "UTC" })

JournalNext ==
  \/ PostJournal
  \/ \E r \in Slots :
       \/ Reject(r)
       \/ InterpretThrows(r)
       \/ Query(r)
       \/ StoreResolves(r)
       \/ StoreRejects(r)
       \/ GenerationResolves(r)
       \/ GenerationRejects(r)

SpecJournal == JournalInit /\ [][JournalNext]_vars

\* two requests with different questions and askers, or bad bodies, handled
\* at the same time
ConcurrentBodies ==
  { [query |-> JsString(QHi), askingUser |-> JsString(Shivam), chatHistory |-> << >>],
    [query |-> JsString(QDate), askingUser |-> JsString(Shreya), chatHistory |-> << >>],
    [query |-> JsNumber(42), askingUser |-> JsString(Shivam), chatHistory |-> << >>],
    [query |-> JsUndefined, askingUser |-> JsString(Shivam), chatHistory |-> << >>] }

ConcurrentInit ==
  /\ handlers \in [Slots -> { NewHandler(body) : body \in ConcurrentBodies }]
  /\ store = Entries
  /\ clock = 60 * 24 + 12
  /\ zone = "UTC"
  /\ page = NewPage

\* one generation result of each outcome: an answer, a safety block, a
\* fragment after a normal stop, and no response object
FewResults ==
  { g \in GenerationResults :
      \/ /\ g.call = "returns" /\ g.text = "answer"
         /\ g.blockReason = << >> /\ g.finishReason = << "STOP" >> /\ g.partText = << >>
      \/ /\ g.kind = "object" /\ ~g.hasText
         /\ g.blockReason = << "SAFETY" >> /\ g.finishReason = << >> /\ g.partText = << >>
      \/ /\ g.kind = "object" /\ ~g.hasText
         /\ g.blockReason = << >> /\ g.finishReason = << "STOP" >>
         /\ g.partText = << "fragment" >>
      \/ g.kind = "null" }

ConcurrentNext ==
  \E r \in Slots :
    \/ Reject(r)
    \/ InterpretThrows(r)
    \/ Query(r)
    \/ StoreResolves(r)
    \/ StoreRejects(r)
    \/ GenerationResolvesWith(r, FewResults)
    \/ GenerationRejects(r)

SpecConcurrent == ConcurrentInit /\ [][ConcurrentNext]_vars

\* ------------------------------------------------------------------------
\* The assistant chat page and AppProvider.askAI
\* ------------------------------------------------------------------------

\* most queries sent from the page in one run
MaxSends == 2

\* what the user types: blanks or a question
PageInputs == { << " " >>, QHi }

\* Array.prototype.slice(from, to) on a sequence, with negative indexes
\* counted from the end
Slice(seq, from, to) ==
  LET len   == Len(seq)
      Clamp(k) == IF k < 0 THEN (IF len + k < 0 THEN 0 ELSE len + k)
                  ELSE (IF k > len THEN len ELSE k)
  IN  SubSeq(seq, Clamp(from) + 1, Clamp(to))

\* the { sender, text } objects of a message list
HistoryTurns(messages) ==
  [ i \in DOMAIN messages |-> [sender |-> messages[i].sender, text |-> messages[i].text] ]

\* the request body askAI posts: JSON.stringify({ query, askingUser }); the
\* function declares two parameters and a third argument is not read
AskAIBody(query, askingUser, recentHistory) ==
  [query |-> JsString(query), askingUser |-> JsString(askingUser), chatHistory |-> << >>]

\* what askAI resolves with when the server answered with `resp`:
\* data.response for a 2xx status, otherwise the apology around data.message
AskAIResult(resp) ==
  IF resp.status >= 200 /\ resp.status < 300
    THEN Seg("reply", << >>, << >>, resp.response)
    ELSE Seg("sorry", << >>, << >>, resp.message)

\* what askAI resolves with when fetch rejects
AskAINetworkError ==
  Seg("sorry", << >>, << >>, << "Network error: Could not connect to the AI assistant." >>)

\* the slot the next request of the page is handled in
FreeSlot == CHOOSE r \in Slots : /\ handlers[r].pc = "absent"
                                 /\ \A q \in Slots : handlers[q].pc = "absent" => r <= q

\* onChange of the input field, which is disabled while loading
SetInputQuery ==
  /\ ~page.isLoading
  /\ \E text \in PageInputs :
       /\ text # page.inputQuery
       /\ page' = [page EXCEPT !.inputQuery = text]
  /\ UNCHANGED << handlers, store, clock, zone >>

\* handleSendQuery without its first line
HandleSendQueryUnguarded ==
  /\ page.sends < MaxSends
  /\ \E r \in Slots : handlers[r].pc = "absent"
  /\ LET userMessage     == PageMessage("user", Seg("typed", << >>, page.inputQuery, << >>),
                                        page.currentUser)
         updatedMessages == Append(page.messages, userMessage)
         recentHistory   == HistoryTurns(Slice(updatedMessages, 0 - 7, 0 - 1))
         call            == [query |-> page.inputQuery, askingUser |-> page.currentUser,
                             recentHistory |-> recentHistory]
     IN  /\ page' = [page EXCEPT !.messages = updatedMessages,
                                 !.inputQuery = << >>,
                                 !.isLoading = TRUE,
                                 !.calls[FreeSlot] = << call >>,
                                 !.sends = @ + 1]
         /\ handlers' = [handlers EXCEPT ![FreeSlot] =
                           NewHandler(AskAIBody(call.query, call.askingUser,
                                                call.recentHistory))]
  /\ UNCHANGED << store, clock, zone >>

\* handleSendQuery up to `await askAI(...)`: the click on Send or Enter in
\* the input; askAI posts the request
HandleSendQuery ==
  /\ ~(Trim(page.inputQuery) = << >> \/ page.isLoading)
  /\ page.sends < MaxSends
  /\ \E r \in Slots : handlers[r].pc = "absent"
  /\ LET userMessage     == PageMessage("user", Seg("typed", << >>, page.inputQuery, << >>),
                                        page.currentUser)
         updatedMessages == Append(page.messages, userMessage)
         recentHistory   == HistoryTurns(Slice(updatedMessages, 0 - 7, 0 - 1))
         call            == [query |-> page.inputQuery, askingUser |-> page.currentUser,
                             recentHistory |-> recentHistory]
     IN  /\ page' = [page EXCEPT !.messages = updatedMessages,
                                 !.inputQuery = << >>,
                                 !.isLoading = TRUE,
                                 !.calls[FreeSlot] = << call >>,
                                 !.sends = @ + 1]
         /\ handlers' = [handlers EXCEPT ![FreeSlot] =
                           NewHandler(AskAIBody(call.query, call.askingUser,
                                                call.recentHistory))]
  /\ UNCHANGED << store, clock, zone >>

\* the rest of handleSendQuery once askAI resolved with `text`: the message
\* is appended to the list as it is now, and the loading flag is reset
AppendReply(r, text) ==
  /\ page' = [page EXCEPT !.messages =
                            Append(@, PageMessage("ai", text, page.calls[r][1].askingUser)),
                          !.isLoading = FALSE,
                          !.calls[r] = NoCall,
                          !.replies = @ + 1]
  /\ handlers' = [handlers EXCEPT ![r] = NoHandler]
  /\ UNCHANGED << store, clock, zone >>

\* the server's response arrives
AskAIResolves(r) ==
  /\ page.calls[r] # NoCall
  /\ handlers[r].pc = "done"
  /\ AppendReply(r, AskAIResult(handlers[r].sent[1]))

\* fetch rejects: the request or its response is lost
AskAIFetchFails(r) ==
  /\ page.calls[r] # NoCall
  /\ AppendReply(r, AskAINetworkError)

\* UserSwitcher.handleUserChange and the effect on currentUser
SwitchUser ==
  /\ \E user \in Range(KnownUsers) :
       /\ user # page.currentUser
       /\ page' = [page EXCEPT !.currentUser = user,
                               !.messages = << Greeting(user) >>,
                               !.inputQuery = << >>]
  /\ UNCHANGED << handlers, store, clock, zone >>

\* the page is open and no request has been made
PageInit ==
  /\ handlers = [ r \in Slots |-> NoHandler ]
  /\ store = Entries
  /\ clock = 60 * 24 + 12
  /\ zone \in TimeZones
  /\ page = NewPage

\* the server handles the requests of the page, whose bodies pass the
\* validation and carry a text question
ServerStep ==
  \E r \in Slots :
    \/ Query(r)
    \/ StoreResolves(r)
    \/ StoreRejects(r)
    \/ GenerationResolvesWith(r, FewResults)
    \/ GenerationRejects(r)

\* the continuation of handleSendQuery runs once the response is there
ReplyArrives == \E r \in Slots : AskAIResolves(r)

PageNext ==
  \/ SetInputQuery
  \/ HandleSendQuery
  \/ SwitchUser
  \/ ServerStep
  \/ ReplyArrives
  \/ \E r \in Slots : AskAIFetchFails(r)

SpecPage == PageInit /\ [][PageNext]_vars

\* the event loop runs the continuation of a settled fetch
SpecPageLive == SpecPage /\ WF_vars(ReplyArrives)

\* ------------------------------------------------------------------------
\* Properties of the response normalisation
\* ------------------------------------------------------------------------

\* the handler in slot r accepted its body and read the question as text
Validated(r) ==
  /\ handlers[r].pc # "absent"
  /\ ~InvalidBody(handlers[r].body)
  /\ handlers[r].body.query.type = "string"

\* the handler in slot r has returned after its generation call resolved
Normalised(r) == handlers[r].pc = "done" /\ handlers[r].result # << >>

\* the generation call of slot r was rejected and the handler has returned
Rejected(r) ==
  /\ handlers[r].pc = "done"
  /\ handlers[r].generationCalls = 1
  /\ handlers[r].result = << >>

\* the result carries no finished text: no response object or no text on it
NoFinishedText(g) == g.kind = "null" \/ ~g.hasText

\* the outcome variants the single response of h stands for
OutcomesOf(h) ==
  LET resp == h.sent[1]
      g    == h.result
  IN  { k \in {"Answered", "PartialAnswer", "Blocked", "Failed"} :
          CASE k = "Answered" ->
                 /\ resp.status = 200
                 /\ g # << >> /\ ~NoFinishedText(g[1])
                 /\ resp.response = << g[1].text >>
            [] k = "PartialAnswer" ->
                 /\ resp.status = 200
                 /\ g # << >> /\ NoFinishedText(g[1])
                 /\ resp.response = g[1].partText
            [] k = "Blocked" ->
                 resp.status = 400 /\ resp.message # << >> /\ resp.response = << >>
            [] OTHER ->
                 resp.status = 500 /\ resp.message # << >> /\ resp.response = << >> }

\* C2: once the generation call has been issued, the handler sends nothing
\* until the call settles, and when it returns (whatever the result was, or
\* the call threw) it has sent exactly one response, which stands for
\* exactly one of Answered, PartialAnswer, Blocked, Failed.
C2_ExactlyOneOutcome ==
  \A r \in Slots :
    handlers[r].generationCalls = 1 =>
      /\ handlers[r].pc = "awaitGeneration" => handlers[r].sent = << >>
      /\ handlers[r].pc = "done" =>
           /\ Len(handlers[r].sent) = 1
           /\ Cardinality(OutcomesOf(handlers[r])) = 1

\* a no-text result with a fragment and a STOP termination was normalised
C2_Witness ==
  \E r \in Slots :
    /\ Normalised(r)
    /\ NoFinishedText(handlers[r].result[1])
    /\ handlers[r].result[1].partText = << "fragment" >>
    /\ handlers[r].result[1].finishReason = << "STOP" >>
    /\ OutcomesOf(handlers[r]) = {"PartialAnswer"}

\* C3: a 200 response carrying the finished text is sent exactly when the
\* result carries non-empty finished text, and every 200 response carries a
\* non-empty response text.
C3_AnsweredIffNonEmptyText ==
  \A r \in Slots :
    Normalised(r) =>
      LET g    == handlers[r].result[1]
          resp == handlers[r].sent[1]
      IN  /\ (resp.status = 200 /\ ~NoFinishedText(g))
               <=> (~NoFinishedText(g) /\ g.call = "returns" /\ g.text # "")
          /\ resp.status = 200 => resp.response \notin { << >>, << "" >> }

C6_PartialSurfaced ==
  \A r \in Slots :
    Normalised(r) =>
      LET g == handlers[r].result[1]
      IN  (/\ NoFinishedText(g)
           /\ g.blockReason = << >>
           /\ g.partText \notin { << >>, << "" >> }) =>
            handlers[r].sent = << Response(200, g.partText, << >>, << >>) >>

StoreFailed(r) == handlers[r].contextText = << Seg("dbError", << >>, << >>, "") >>

\* C1: a validated request whose store query failed has still assembled the
\* prompt (its context block is the retrieval-failed sentence) and issued the
\* generation call; every validated request that has returned did so after
\* the generation call; and two requests with the same generation result got
\* the same response, whether or not the store query of either failed.
C1_StoreFailureDoesNotDecide ==
  /\ \A r \in Slots :
       (Validated(r) /\ StoreFailed(r)) =>
         /\ handlers[r].pc \in {"awaitGeneration", "done"}
         /\ handlers[r].generationCalls = 1
         /\ Len(handlers[r].fullPrompt) = 6
         /\ handlers[r].fullPrompt[4].text = << Seg("dbError", << >>, << >>, "") >>
  /\ \A r \in Slots :
       (Validated(r) /\ handlers[r].pc = "done") =>
         handlers[r].generationCalls = 1 /\ Len(handlers[r].sent) = 1
  /\ \A r1, r2 \in Slots :
       (/\ Validated(r1) /\ handlers[r1].pc = "done"
        /\ Validated(r2) /\ handlers[r2].pc = "done"
        /\ handlers[r1].result = handlers[r2].result) =>
         handlers[r1].sent = handlers[r2].sent

\* the same finished text came back to a request whose store query failed
\* and to one whose store query succeeded, and both were answered alike
C1_Witness ==
  \E r1, r2 \in Slots :
    /\ Validated(r1) /\ Normalised(r1) /\ StoreFailed(r1)
    /\ Validated(r2) /\ Normalised(r2) /\ ~StoreFailed(r2)
    /\ handlers[r1].result = handlers[r2].result
    /\ handlers[r1].result[1].text = "answer"
    /\ handlers[r1].sent = handlers[r2].sent
    /\ handlers[r1].sent[1].status = 200

\* the question is missing, empty or not a text string, or the asking user
\* is missing or not one of the two known identities
BadInput(body) ==
  \/ body.query.type # "string"
  \/ body.query.chars = << >>
  \/ body.askingUser.type # "string"
  \/ body.askingUser.chars \notin {Shivam, Shreya}

\* C8: a request with bad input is answered 400 and never reaches the store
\* query or the generation call.
C8_BadInputRejected ==
  \A r \in Slots :
    (handlers[r].pc # "absent" /\ BadInput(handlers[r].body)) =>
      /\ handlers[r].storeQueries = 0
      /\ handlers[r].generationCalls = 0
      /\ handlers[r].pc \in {"start", "done"}
      /\ handlers[r].pc = "done" =>
           /\ Len(handlers[r].sent) = 1
           /\ handlers[r].sent[1].status = 400

\* ------------------------------------------------------------------------
\* Properties of the intent inference
\* ------------------------------------------------------------------------

\* the handler in slot r has derived its filters
Interpreted(r) == handlers[r].pc = "awaitStore"

HasDateLiteral(q) == \E i \in 1..Len(q) : DateShapeAt(q, i)

FirstDateLiteral(q) ==
  LET i == CHOOSE j \in 1..Len(q) :
             DateShapeAt(q, j) /\ \A k \in 1..(j - 1) : ~DateShapeAt(q, k)
  IN  SubSeq(q, i, i + 9)

\* C9: a question with a YYYY-MM-DD literal gets that literal (the leftmost
\* one) as its exact-date filter and no keyword filter, whatever else it says.
C9_LiteralDateWins ==
  \A r \in Slots :
    (Interpreted(r) /\ HasDateLiteral(handlers[r].body.query.chars)) =>
      /\ handlers[r].dateFilter = << FirstDateLiteral(handlers[r].body.query.chars) >>
      /\ handlers[r].mongoQuery.date = handlers[r].dateFilter
      /\ handlers[r].keywordFilter = << >>
      /\ handlers[r].mongoQuery.search = << >>

\* a question naming today, a literal date, yesterday and a keyword was
\* interpreted as the literal date
C9_Witness ==
  \E r \in Slots :
    /\ Interpreted(r)
    /\ handlers[r].body.query.chars = QDateToday
    /\ handlers[r].dateFilter = << Mar01 >>
    /\ handlers[r].keywordFilter = << >>

\* C10: without a date literal, "today" gives the reference date (also when
\* "yesterday" occurs too); otherwise "yesterday" gives the day before the
\* reference date.
C10_TodayThenYesterday ==
  \A r \in Slots :
    (Interpreted(r) /\ ~HasDateLiteral(handlers[r].body.query.chars)) =>
      LET ql == handlers[r].queryLower
      IN  /\ Includes(ql, Today) =>
               handlers[r].dateFilter = << ISODate(handlers[r].today) >>
          /\ (~Includes(ql, Today) /\ Includes(ql, Yesterday)) =>
               handlers[r].dateFilter = << ISODate(handlers[r].today - 24) >>


\* the question carries a date signal: a literal, "today" or "yesterday"
DateSignal(q) ==
  \/ HasDateLiteral(q)
  \/ Includes(ToLowerCase(q), Today)
  \/ Includes(ToLowerCase(q), Yesterday)

\* C11: in the Intent of every valid request exactly one of dateFilter and
\* keywordFilter is populated.
C11_ExactlyOneFilter ==
  \A r \in Slots :
    Interpreted(r) =>
      (handlers[r].dateFilter # << >>) # (handlers[r].keywordFilter # << >>)

\* C11 as amended: exactly one of the two filters is populated, except that
\* neither is when the question has no date signal and no keyword token
\* longer than 3 characters, and only then.
C11_OneFilterOrFallback ==
  \A r \in Slots :
    Interpreted(r) =>
      LET d == handlers[r].dateFilter # << >>
          k == handlers[r].keywordFilter # << >>
          nothing == /\ ~DateSignal(handlers[r].body.query.chars)
                     /\ ExtractKeywords(handlers[r].queryLower) = << >>
      IN  /\ ~(d /\ k)
          /\ (~d /\ ~k) <=> nothing

\* "hi" was interpreted with neither filter
C11_Witness ==
  \E r \in Slots :
    /\ Interpreted(r)
    /\ handlers[r].body.query.chars = QHi
    /\ handlers[r].dateFilter = << >>
    /\ handlers[r].keywordFilter = << >>

\* C12: the two filters are never both populated and the store query never
\* carries both a date condition and a text-search condition: a question
\* with a date signal gets no keyword filter, whatever keywords it has.
C12_DateBeforeKeywords ==
  \A r \in Slots :
    Interpreted(r) =>
      /\ ~(handlers[r].dateFilter # << >> /\ handlers[r].keywordFilter # << >>)
      /\ ~(handlers[r].mongoQuery.date # << >> /\ handlers[r].mongoQuery.search # << >>)
      /\ DateSignal(handlers[r].body.query.chars) =>
           /\ handlers[r].mongoQuery.date # << >>
           /\ handlers[r].mongoQuery.search = << >>

\* a question with a date signal and usable keywords got the date filter only
C12_Witness ==
  \E r \in Slots :
    /\ Interpreted(r)
    /\ handlers[r].body.query.chars = QDateYesterday
    /\ ExtractKeywords(handlers[r].queryLower) # << >>
    /\ handlers[r].mongoQuery.date = << Feb29 >>
    /\ handlers[r].mongoQuery.search = << >>


\* the question is phrased as a recap: "how was" or "what did"
RecapPhrase(queryLower) == Includes(queryLower, HowWas) \/ Includes(queryLower, WhatDid)

\* C13: no date signal and no keyword token longer than 3 characters: neither
\* filter is populated, nothing is sent (the request is not an error), the
\* limit is 5 x |targetUsers| for a recap phrase and 1 otherwise, the filter
\* is the target authors alone and the sort is date desc, createdAt desc.
C13_FallbackTiers ==
  \A r \in Slots :
    (/\ Interpreted(r)
     /\ ~DateSignal(handlers[r].body.query.chars)
     /\ ExtractKeywords(handlers[r].queryLower) = << >>) =>
      /\ handlers[r].dateFilter = << >>
      /\ handlers[r].keywordFilter = << >>
      /\ handlers[r].sent = << >>
      /\ handlers[r].storeQueries = 1
      /\ handlers[r].limit =
           IF RecapPhrase(handlers[r].queryLower)
             THEN 5 * Len(handlers[r].targetUsers) ELSE 1
      /\ handlers[r].mongoQuery =
           [users |-> handlers[r].targetUsers, date |-> << >>, search |-> << >>]
      /\ handlers[r].sortOptions = << "date", "createdAt" >>

\* "What did I do?" fell into the recap tier with limit 5
C13_Witness ==
  \E r \in Slots :
    /\ Interpreted(r)
    /\ handlers[r].body.query.chars = QRecap
    /\ handlers[r].dateFilter = << >>
    /\ handlers[r].keywordFilter = << >>
    /\ handlers[r].limit = 5

\* C14: a date filter gives limit 15, sort date desc then createdAt desc and
\* no projection; otherwise a keyword filter gives limit 10, sort relevance
\* then date desc and the projected score; the relevance sort and projection
\* are used exactly when the keyword filter is set.
C14_PlanByPrecedence ==
  \A r \in Slots :
    Interpreted(r) =>
      LET d == handlers[r].dateFilter # << >>
          k == handlers[r].keywordFilter # << >>
      IN  /\ d => /\ handlers[r].limit = 15
                  /\ handlers[r].sortOptions = << "date", "createdAt" >>
                  /\ handlers[r].projectionOptions = {}
          /\ (~d /\ k) => /\ handlers[r].limit = 10
                          /\ handlers[r].sortOptions = << "score", "date" >>
                          /\ handlers[r].projectionOptions = {"score"}
          /\ ("score" \in handlers[r].projectionOptions) <=> k
          /\ ("score" \in Range(handlers[r].sortOptions)) <=> k

\* "How was Shreya's week?" got the keyword plan
C14_Witness ==
  \E r \in Slots :
    /\ Interpreted(r)
    /\ handlers[r].body.query.chars = QWeek
    /\ handlers[r].keywordFilter # << >>
    /\ handlers[r].limit = 10
    /\ handlers[r].sortOptions = << "score", "date" >>

\* C15: a question that mentions the other author's name has two target
\* authors, and one with "both" or "everyone" has exactly the two known
\* authors, whether or not a name is mentioned.
C15_TargetAuthors ==
  \A r \in Slots :
    Interpreted(r) =>
      LET ql    == ToLowerCase(handlers[r].body.query.chars)
          other == OtherUser(handlers[r].body.askingUser.chars)
      IN  /\ Includes(ql, ToLowerCase(other)) => Len(handlers[r].targetUsers) = 2
          /\ (Includes(ql, Both) \/ Includes(ql, Everyone)) =>
               /\ Len(handlers[r].targetUsers) = 2
               /\ Range(handlers[r].targetUsers) = {Shivam, Shreya}

\* Shreya asked "What did both of us do", which names nobody
C15_Witness ==
  \E r \in Slots :
    /\ Interpreted(r)
    /\ handlers[r].body.query.chars = QBoth
    /\ handlers[r].body.askingUser.chars = Shreya
    /\ handlers[r].targetUsers = << Shivam, Shreya >>


\* the handler in slot r has planned its store query
Planned(r) == handlers[r].storeQueries > 0

\* the handler in slot r has assembled its prompt
Assembled(r) == handlers[r].generationCalls > 0

\* the journal context block of the assembled prompt
ContextBlock(r) == handlers[r].fullPrompt[4].text

\* the entry lines of the journal context block
EntryLines(r) == SelectSeq(ContextBlock(r), LAMBDA seg : seg.kind = "entry")

\* C16: targetUsers is a non-empty, duplicate-free subset of the known
\* authors that contains the asking user, and the store query selects only
\* entries of those authors; a question naming neither the other author nor
\* both/everyone never retrieves the other author's entries.
C16_OnlyTargetAuthors ==
  \A r \in Slots :
    Planned(r) =>
      LET h      == handlers[r]
          asking == h.body.askingUser.chars
          ql     == ToLowerCase(h.body.query.chars)
      IN  /\ h.targetUsers # << >>
          /\ \A i, j \in DOMAIN h.targetUsers : i # j => h.targetUsers[i] # h.targetUsers[j]
          /\ Range(h.targetUsers) \subseteq Range(KnownUsers)
          /\ asking \in Range(h.targetUsers)
          /\ h.mongoQuery.users = h.targetUsers
          /\ \A i \in DOMAIN h.fetchedEntries :
               h.fetchedEntries[i].user \in Range(h.targetUsers)
          /\ (/\ ~Includes(ql, ToLowerCase(OtherUser(asking)))
              /\ ~Includes(ql, Both)
              /\ ~Includes(ql, Everyone)) =>
               /\ h.targetUsers = << asking >>
               /\ \A i \in DOMAIN h.fetchedEntries : h.fetchedEntries[i].user = asking

\* Shivam asked about 2024-03-01, a day on which Shreya wrote too, and got
\* his own entry alone
C16_Witness ==
  \E r \in Slots :
    /\ Assembled(r)
    /\ handlers[r].body.query.chars = QDate
    /\ handlers[r].body.askingUser.chars = Shivam
    /\ Entry(Shreya, Mar01, "read", 2) \in store
    /\ handlers[r].fetchedEntries = << Entry(Shivam, Mar01, "ran", 1) >>

\* C17: the number of journal entries in the grounding context never
\* exceeds 15, nor the limit of the tier: 15 for a date, 10 for keywords,
\* 5 x |targetUsers| for a recap, 1 otherwise.
C17_ContextBounded ==
  \A r \in Slots :
    Assembled(r) =>
      LET h == handlers[r]
          n == Len(EntryLines(r))
          tier == IF h.dateFilter # << >> THEN 15
                  ELSE IF h.keywordFilter # << >> THEN 10
                  ELSE IF RecapPhrase(h.queryLower) THEN 5 * Len(h.targetUsers)
                  ELSE 1
      IN  /\ n = Len(h.fetchedEntries)
          /\ n <= 15
          /\ n <= tier

\* a date question over a collection with 16 entries of that day and author
\* put exactly 15 of them into the context
C17_Witness ==
  \E r \in Slots :
    /\ Assembled(r)
    /\ handlers[r].dateFilter # << >>
    /\ Cardinality({ e \in store : /\ e.user \in Range(handlers[r].targetUsers)
                                   /\ e.date = handlers[r].dateFilter[1] }) > 15
    /\ Len(EntryLines(r)) = 15

\* C18: the journal context block is exactly one of an entry list, the
\* no-entries sentence and the retrieval-error sentence; when the store
\* query failed it is the retrieval-error sentence, and the no-entries
\* sentence appears only when the query succeeded with zero entries.
C18_ContextBlockShape ==
  \A r \in Slots :
    Assembled(r) =>
      LET h          == handlers[r]
          ctx        == ContextBlock(r)
          isError    == ctx = << Seg("dbError", << >>, << >>, "") >>
          isNone     == ctx = << Seg("noEntries", << >>, << >>, "") >>
          isList     == /\ Len(ctx) > 1
                        /\ ctx[1] = Seg("entriesHeader", << >>, << >>, "")
                        /\ \A i \in 2..Len(ctx) : ctx[i].kind = "entry"
      IN  /\ ctx = h.contextText
          /\ isError \/ isNone \/ isList
          /\ h.dbError => isError
          /\ isError => h.dbError
          /\ isNone <=> (~h.dbError /\ h.fetchedEntries = << >>)

\* the store query failed and the prompt carries the retrieval-error sentence
C18_Witness ==
  \E r \in Slots :
    /\ Assembled(r)
    /\ handlers[r].dbError
    /\ handlers[r].fetchedEntries = << >>
    /\ ContextBlock(r) = << Seg("dbError", << >>, << >>, "") >>

\* C19: when entries were retrieved, the formatter emits one line per entry
\* and the lines are newest first (non-increasing entry date) in every tier.
C19_NewestFirst ==
  \A r \in Slots :
    (Assembled(r) /\ handlers[r].fetchedEntries # << >>) =>
      LET lines == EntryLines(r)
      IN  /\ Len(lines) = Len(handlers[r].fetchedEntries)
          /\ \A i, j \in DOMAIN lines : i < j => ~StrLess(lines[i].date, lines[j].date)

\* C20: an entry line carries the author's name exactly when targetUsers has
\* more than one author.
C20_AuthorPrefix ==
  \A r \in Slots :
    Assembled(r) =>
      LET lines == EntryLines(r)
      IN  /\ Len(lines) = Len(handlers[r].fetchedEntries)
          /\ \A i \in DOMAIN lines :
               /\ lines[i].date = handlers[r].fetchedEntries[i].date
               /\ lines[i].text = handlers[r].fetchedEntries[i].text
               /\ IF Len(handlers[r].targetUsers) > 1
                    THEN lines[i].user = handlers[r].fetchedEntries[i].user
                    ELSE lines[i].user = << >>

\* Shivam asked about Shreya's week: both authors' entries are listed, each
\* with its author
C20_Witness ==
  \E r \in Slots :
    /\ Assembled(r)
    /\ Len(handlers[r].targetUsers) = 2
    /\ { EntryLines(r)[i].user : i \in DOMAIN EntryLines(r) } = { Shivam, Shreya }


\* the store query of slot r succeeded with zero entries and the prompt is
\* assembled
FoundNothing(r) ==
  /\ Assembled(r)
  /\ ~handlers[r].dbError
  /\ handlers[r].fetchedEntries = << >>

\* the filter the plan of slot r attempted
FilterAttempted(r) ==
  IF handlers[r].dateFilter # << >> THEN "date"
  ELSE IF handlers[r].keywordFilter # << >> THEN "keyword"
  ELSE "none"

\* C21: when the store query succeeds with zero entries, the no-entries
\* context sentence tells which filter was attempted: the sentence after a
\* date filter differs from the one after a keyword filter and from the one
\* after no filter.
C21_NoEntriesSentenceTiered ==
  \A r1, r2 \in Slots :
    (/\ FoundNothing(r1)
     /\ FoundNothing(r2)
     /\ FilterAttempted(r1) # FilterAttempted(r2)) =>
      ContextBlock(r1) # ContextBlock(r2)

\* C22: the supplied turns are rendered in the order received, one line per
\* turn, a 'user' turn labelled with the asking author and any other turn
\* with the assistant label; with no turns the history block is empty.
C22_HistoryRendered ==
  \A r \in Slots :
    Assembled(r) =>
      LET turns   == handlers[r].body.chatHistory
          history == handlers[r].fullPrompt[3].text
      IN  IF Len(turns) = 0
            THEN history = << >>
            ELSE /\ Len(history) = Len(turns) + 1
                 /\ history[1] = Seg("historyHeader", << >>, << >>, "")
                 /\ \A i \in DOMAIN turns :
                      /\ history[i + 1].kind = "turn"
                      /\ history[i + 1].text = turns[i].text
                      /\ history[i + 1].user =
                           IF turns[i].sender = "user"
                             THEN handlers[r].body.askingUser.chars
                             ELSE AssistantLabel

\* Shreya's request carried her turn and then the assistant's: two lines in
\* that order, hers under her name
C22_Witness ==
  \E r \in Slots :
    /\ Assembled(r)
    /\ handlers[r].body.askingUser.chars = Shreya
    /\ handlers[r].body.chatHistory =
         << [sender |-> "user", text |-> "q"], [sender |-> "ai", text |-> "a"] >>
    /\ handlers[r].fullPrompt[3].text =
         << Seg("historyHeader", << >>, << >>, ""),
            Seg("turn", Shreya, << >>, "q"),
            Seg("turn", AssistantLabel, << >>, "a") >>

\* C23: every prompt handed to the generation call has its blocks in the
\* order persona, task instructions, conversation history, journal context,
\* quoted question, answer cue, and the blocks carry this request's
\* history, context and question.
C23_PromptOrder ==
  \A r \in Slots :
    Assembled(r) =>
      LET prompt == handlers[r].fullPrompt
      IN  /\ [ i \in DOMAIN prompt |-> prompt[i].block ] =
               << "persona", "task", "history", "context", "query", "cue" >>
          /\ prompt[3].text = handlers[r].historyText
          /\ prompt[4].text = handlers[r].contextText
          /\ prompt[4].text # << >>
          /\ prompt[5].text =
               << Seg("query", handlers[r].body.askingUser.chars,
                      handlers[r].body.query.chars, "") >>

\* a prompt with a history and an entry list was handed to the generation
\* call
C23_Witness ==
  \E r \in Slots :
    /\ handlers[r].pc = "awaitGeneration"
    /\ Len(handlers[r].fullPrompt[3].text) > 1
    /\ Len(handlers[r].fullPrompt[4].text) > 1
    /\ handlers[r].fullPrompt[5].text[1].date = QDate


\* C24: a step of the /api/ai handler, on any path, leaves the journal
\* collection as it was: it creates, changes and deletes no entry.
C24_StoreUntouched ==
  [][ (handlers' # handlers) => (store' = store) ]_vars

\* an entry was saved through the journal route while a request was
\* answered, and the collection holds the old entries and that one
C24_Witness ==
  \E r \in Slots :
    /\ handlers[r].pc = "done"
    /\ handlers[r].sent[1].status = 200
    /\ handlers[r].fetchedEntries # << >>
    /\ Entries \subseteq store
    /\ Cardinality(store) = Cardinality(Entries) + 1

\* the handlers that have assembled their prompt after the plan of h1 ran
\* against the collection
LoneAssembled(h1) ==
  { StoreRejected(h1) } \cup
  { StoreResolved(h1, Find(store, h1.mongoQuery, h1.sortOptions, h1.limit, score)) :
      score \in (IF h1.mongoQuery.search = << >>
                   THEN { [ e \in store |-> 0 ] } ELSE Scores(store)) }

\* h is a state of a handler that runs alone on the body of h
LoneRun(h) ==
  LET h0 == NewHandler(h.body)
      h1 == Interpret(h0, clock, zone)
  IN  IF h.pc = "start" THEN h = h0
      ELSE IF InvalidBody(h.body) THEN h = RejectInput(h0)
      ELSE IF h.body.query.type # "string"
        THEN h = CatchError(h0, "query.toLowerCase is not a function")
      ELSE IF h.pc = "awaitStore" THEN h = h1
      ELSE IF h.pc = "awaitGeneration" THEN h \in LoneAssembled(h1)
      ELSE \E h2 \in LoneAssembled(h1) :
             IF h.result = << >>
               THEN h = GenerationRejected(h2)
               ELSE h = GenerationResolved(h2, h.result[1])

\* C25: in every interleaving of two requests over the same collection,
\* each request has the intent, plan, context and outcome it has when it
\* runs alone.
C25_NoInterference ==
  \A r \in Slots : LoneRun(handlers[r])

\* two different requests both ran to their end, one answered from the date
\* plan and one from the fallback plan
C25_Witness ==
  \E r1, r2 \in Slots :
    /\ handlers[r1].pc = "done" /\ handlers[r2].pc = "done"
    /\ handlers[r1].body.query.chars = QHi
    /\ handlers[r2].body.query.chars = QDate
    /\ handlers[r1].limit = 1
    /\ handlers[r2].limit = 15
    /\ handlers[r1].targetUsers = << Shivam >>
    /\ handlers[r2].targetUsers = << Shreya >>
    /\ handlers[r1].sent[1].status = 200
    /\ handlers[r2].sent[1].status = 200

\* C26: in a validated request the store query is issued exactly once and is
\* over before the generation call is issued, and the generation call is
\* issued at most once: a blocked or failed generation is not retried.
C26_OneQueryThenOneGeneration ==
  \A r \in Slots :
    Validated(r) =>
      /\ handlers[r].pc = "start" =>
           handlers[r].storeQueries = 0 /\ handlers[r].generationCalls = 0
      /\ handlers[r].pc = "awaitStore" =>
           handlers[r].storeQueries = 1 /\ handlers[r].generationCalls = 0
      /\ handlers[r].pc \in {"awaitGeneration", "done"} =>
           /\ handlers[r].storeQueries = 1
           /\ handlers[r].generationCalls = 1
           /\ handlers[r].contextText # << >>
      /\ handlers[r].pc = "done" => Len(handlers[r].sent) = 1

\* a generation blocked for safety was answered 400 after one store query
\* and one generation call
C26_Witness ==
  \E r \in Slots :
    /\ Validated(r)
    /\ handlers[r].pc = "done"
    /\ handlers[r].sent[1].status = 400
    /\ handlers[r].result[1].blockReason # << >>
    /\ handlers[r].storeQueries = 1
    /\ handlers[r].generationCalls = 1

\* Shivam's request "How was Shreya's week?" has been interpreted
WeekAsked(r) ==
  /\ Interpreted(r)
  /\ handlers[r].body.query.chars = QWeek
  /\ handlers[r].body.askingUser.chars = Shivam

\* C27: for "How was Shreya's week?" asked by Shivam, targetUsers includes
\* Shreya and the tier is the recap fallback (no filter, limit
\* 5 x |targetUsers|) or a date filter, never the single-latest-entry one.
C27_WeekIsRecapOrDate ==
  \A r \in Slots :
    WeekAsked(r) =>
      /\ Shreya \in Range(handlers[r].targetUsers)
      /\ \/ /\ handlers[r].dateFilter = << >>
            /\ handlers[r].keywordFilter = << >>
            /\ handlers[r].limit = 5 * Len(handlers[r].targetUsers)
         \/ handlers[r].dateFilter # << >>
      /\ handlers[r].limit # 1

\* C27 as amended: for "How was Shreya's week?" asked by Shivam, targetUsers
\* includes Shreya and the tier is the keyword one (a text search for the
\* extracted keywords, relevance sort, limit 10), never the
\* single-latest-entry one.
C27_WeekIsKeywordSearch ==
  \A r \in Slots :
    WeekAsked(r) =>
      /\ handlers[r].targetUsers = << Shivam, Shreya >>
      /\ handlers[r].dateFilter = << >>
      /\ handlers[r].keywordFilter =
           << <<"s","h","r","e","y","s"," ","w","e","e","k">> >>
      /\ handlers[r].mongoQuery.search = handlers[r].keywordFilter
      /\ handlers[r].sortOptions = << "score", "date" >>
      /\ handlers[r].limit = 10
      /\ handlers[r].limit # 1

\* the request was interpreted in a New York server as well
C27_Witness ==
  \E r \in Slots :
    /\ WeekAsked(r)
    /\ zone # "UTC"
    /\ handlers[r].mongoQuery.users = << Shivam, Shreya >>
    /\ handlers[r].mongoQuery.search # << >>


\* the slots of the askAI calls that are pending
Pending == { r \in Slots : page.calls[r] # NoCall }

\* C28: a query sent from the chat page reaches /api/ai together with the
\* recent history: the up to 6 messages before the query in the message
\* list, oldest first, without the query itself.
C28_HistoryReachesEndpoint ==
  \A r \in Pending :
    LET call == page.calls[r][1]
    IN  /\ handlers[r].body.query = JsString(call.query)
        /\ handlers[r].body.askingUser = JsString(call.askingUser)
        /\ Len(call.recentHistory) <= 6
        /\ handlers[r].body.chatHistory = call.recentHistory

\* the server has answered a pending request of the page
Responded == \E r \in Pending : handlers[r].pc = "done"

\* C29: at most one request is in flight, a blank input is never sent, each
\* send is answered by exactly one appended assistant message, and once the
\* request has been answered, with success or with an error, the loading
\* flag is eventually reset.
C29_OneRequestOneReply ==
  /\ [](/\ Cardinality(Pending) <= 1
        /\ page.isLoading <=> (Pending # {})
        /\ \A r \in Slots :
             handlers[r].pc # "absent" =>
               /\ r \in Pending
               /\ Trim(handlers[r].body.query.chars) # << >>
        /\ page.replies = page.sends - Cardinality(Pending)
        /\ ~page.isLoading =>
             page.messages[Len(page.messages)].sender = "ai")
  /\ (Responded ~> ~page.isLoading)

\* two queries were sent, one answered by the server and one lost, and the
\* page is idle again with both replies in the list
C29_Witness ==
  /\ page.sends = 2
  /\ page.replies = 2
  /\ ~page.isLoading
  /\ Len(page.messages) = 5
  /\ page.messages[3].text.kind = "reply"
  /\ page.messages[5].text = AskAINetworkError

\* C30: after the user is switched the conversation holds only the new
\* user's greeting and messages exchanged after the switch; a reply to a
\* query sent as the previous user is never appended to it.
C30_NoStaleReply ==
  \A i \in DOMAIN page.messages : page.messages[i].asker = page.currentUser

====
